---- MODULE Spec2Model ----
(***************************************************************************)
(* The ln utility of somnisoft/link (src/src/ln.c) as a state machine      *)
(* over a small POSIX file system, with the link and unlink utilities      *)
(* (src/src/link.c, src/src/unlink.c) and the functions si_add_size_t and  *)
(* ln_path_target_concat called by themselves.                             *)
(*                                                                         *)
(* A path is a sequence of one-character strings, <<"d","/","a">> for      *)
(* "d/a".  The process runs with the root directory as working directory.  *)
(***************************************************************************)
EXTENDS Integers, Sequences, FiniteSets, TLC

\* ------------------------------------------------------------------ bounds
\* Largest number of operands after the options.
MaxOperands == 3
\* Largest number of option characters getopt hands to the loop.
MaxFlags == 2
\* Number of nested symbolic links a lookup follows before ELOOP.
MaxDepth == 3
\* Width of size_t in bits.
SizeBits == 4

\* --------------------------------------------------------------- constants
EXIT_SUCCESS == 0
EXIT_FAILURE == 1

LN_FLAG_REMOVE_DEST == "LN_FLAG_REMOVE_DEST"
LN_FLAG_FOLLOW_SYMBOLIC == "LN_FLAG_FOLLOW_SYMBOLIC"
LN_FLAG_SYMBOLIC == "LN_FLAG_SYMBOLIC"

\* ------------------------------------------------------------ path strings
Slash == "/"

RECURSIVE StripTrailingSlashes(_)
StripTrailingSlashes(s) ==
  IF Len(s) > 0 /\ s[Len(s)] = Slash
  THEN StripTrailingSlashes(SubSeq(s, 1, Len(s) - 1))
  ELSE s

RECURSIVE AfterLastSlash(_)
AfterLastSlash(s) ==
  IF Len(s) = 0 \/ s[Len(s)] = Slash
  THEN <<>>
  ELSE Append(AfterLastSlash(SubSeq(s, 1, Len(s) - 1)), s[Len(s)])

\* basename(3): "" gives ".", a string of slashes gives "/", otherwise the
\* last component with the trailing slashes removed.
basename(s) ==
  IF Len(s) = 0 THEN <<".">>
  ELSE IF StripTrailingSlashes(s) = <<>> THEN <<Slash>>
  ELSE AfterLastSlash(StripTrailingSlashes(s))

\* The components of a path; empty components are dropped and a trailing
\* slash stands for a final "." component.
RECURSIVE Components(_, _)
Components(s, cur) ==
  IF Len(s) = 0
  THEN IF cur = <<>> THEN <<>> ELSE <<cur>>
  ELSE IF Head(s) = Slash
       THEN (IF cur = <<>> THEN <<>> ELSE <<cur>>)
            \o (IF Len(s) = 1 THEN <<(<<".">>)>> ELSE Components(Tail(s), <<>>))
       ELSE Components(Tail(s), Append(cur, Head(s)))

\* --------------------------------------------------------------- file system
\* A file system is [node, dirent]: node is a sequence of inodes
\* [type, dev, ino, text] (text is the stored text of a symbolic link) and
\* dirent[d][name] is the node a directory d links under name, 0 for none.
NameChars == {"a", "b", "s", "g", "n", "d", "k", "m"}
Names == {<<c>> : c \in NameChars}
Root == 1

NoEntries == [n \in Names |-> 0]

File(dev, ino) == [type |-> "file", dev |-> dev, ino |-> ino, text |-> <<>>]
Dir(dev, ino) == [type |-> "dir", dev |-> dev, ino |-> ino, text |-> <<>>]
Symlink(dev, ino, text) == [type |-> "symlink", dev |-> dev, ino |-> ino, text |-> text]

DirIds(fs) == {i \in 1..Len(fs.node) : fs.node[i].type = "dir"}

\* st_nlink of a node that is not a directory: the entries that name it.
Nlink(fs, id) ==
  Cardinality({<<d, n>> \in DirIds(fs) \X Names : fs.dirent[d][n] = id})

Ok(id) == [rc |-> "OK", id |-> id]
Err(e) == [rc |-> e, id |-> 0]

\* Path lookup from directory cur. follow: a symbolic link in the last
\* component is followed (stat) or not (lstat).
RECURSIVE Walk(_, _, _, _, _)
Walk(fs, cur, comps, follow, depth) ==
  IF comps = <<>> THEN Ok(cur)
  ELSE IF fs.node[cur].type # "dir" THEN Err("ENOTDIR")
  ELSE IF Head(comps) = <<".">> THEN Walk(fs, cur, Tail(comps), follow, depth)
  ELSE IF Head(comps) \notin Names THEN Err("ENOENT")
  ELSE LET id == fs.dirent[cur][Head(comps)]
           rest == Tail(comps)
       IN IF id = 0 THEN Err("ENOENT")
          ELSE IF fs.node[id].type = "symlink" /\ (rest # <<>> \/ follow)
          THEN IF depth >= MaxDepth THEN Err("ELOOP")
               ELSE LET text == fs.node[id].text
                        from == IF Len(text) > 0 /\ text[1] = Slash THEN Root ELSE cur
                        t == IF text = <<>> THEN Err("ENOENT")
                             ELSE Walk(fs, from, Components(text, <<>>), TRUE, depth + 1)
                    IN IF t.rc # "OK" THEN t
                       ELSE Walk(fs, t.id, rest, follow, depth)
          ELSE Walk(fs, id, rest, follow, depth)

Lookup(fs, path, follow) ==
  IF path = <<>> THEN Err("ENOENT")
  ELSE Walk(fs, Root, Components(path, <<>>), follow, 0)

\* stat(2) and lstat(2): the result code and the node found.
sys_stat(fs, path) == Lookup(fs, path, TRUE)
sys_lstat(fs, path) == Lookup(fs, path, FALSE)

Front(s) == SubSeq(s, 1, Len(s) - 1)
Last(s) == s[Len(s)]

\* The directory and the name a path creates or removes an entry at.
Parent(fs, path) ==
  IF Components(path, <<>>) = <<>> THEN Err("ENOENT")
  ELSE Walk(fs, Root, Front(Components(path, <<>>)), TRUE, 0)
LastName(path) == Last(Components(path, <<>>))

\* unlink(2) of the entry name of directory p.
UnlinkAt(fs, p, name, deny) ==
  IF p.rc # "OK" THEN [rc |-> p.rc, fs |-> fs]
  ELSE IF fs.node[p.id].type # "dir" THEN [rc |-> "ENOTDIR", fs |-> fs]
  ELSE IF name = <<".">> THEN [rc |-> "EISDIR", fs |-> fs]
  ELSE IF name \notin Names \/ fs.dirent[p.id][name] = 0 THEN [rc |-> "ENOENT", fs |-> fs]
  ELSE IF fs.node[fs.dirent[p.id][name]].type = "dir" THEN [rc |-> "EISDIR", fs |-> fs]
  ELSE IF deny THEN [rc |-> "EACCES", fs |-> fs]
  ELSE [rc |-> "OK",
        fs |-> [fs EXCEPT !.dirent[p.id][name] = 0]]

\* unlink(2). deny: the kernel refuses the removal (EACCES, EPERM).
sys_unlink(fs, path, deny) ==
  UnlinkAt(fs, Parent(fs, path), LastName(path), deny)

\* Whether directory p can take a new entry name: the error, or the directory.
NewEntryAt(fs, p, name, deny) ==
  IF p.rc # "OK" THEN Err(p.rc)
  ELSE IF fs.node[p.id].type # "dir" THEN Err("ENOTDIR")
  ELSE IF name = <<".">> THEN Err("EEXIST")
  ELSE IF name \notin Names THEN Err("ENAMETOOLONG")
  ELSE IF fs.dirent[p.id][name] # 0 THEN Err("EEXIST")
  ELSE IF deny THEN Err("EACCES")
  ELSE Ok(p.id)

\* Where a new entry can go: the error, or the directory to put it in.
NewEntry(fs, path, deny) ==
  NewEntryAt(fs, Parent(fs, path), LastName(path), deny)

\* LinkAt making the new entry a file of its own, a copy, instead of a
\* second name of the node of old.
LinkAt_Copy(fs, o, n, name) ==
  IF o.rc # "OK" THEN [rc |-> o.rc, fs |-> fs]
  ELSE IF n.rc # "OK" THEN [rc |-> n.rc, fs |-> fs]
  ELSE IF fs.node[o.id].type = "dir" THEN [rc |-> "EPERM", fs |-> fs]
  ELSE [rc |-> "OK",
        fs |-> [node |-> Append(fs.node, [fs.node[o.id] EXCEPT !.ino = 0]),
                dirent |-> [fs.dirent EXCEPT ![n.id][name] = Len(fs.node) + 1]]]

\* linkat(2) once old is looked up (o) and the place of new is found (n).
LinkAt(fs, o, n, name) ==
  IF o.rc # "OK" THEN [rc |-> o.rc, fs |-> fs]
  ELSE IF n.rc # "OK" /\ n.rc # "EACCES" THEN [rc |-> n.rc, fs |-> fs]
  ELSE IF fs.node[o.id].type = "dir" THEN [rc |-> "EPERM", fs |-> fs]
  ELSE IF n.rc # "OK" THEN [rc |-> n.rc, fs |-> fs]
  ELSE IF fs.node[o.id].dev # fs.node[n.id].dev THEN [rc |-> "EXDEV", fs |-> fs]
  ELSE [rc |-> "OK",
        fs |-> [fs EXCEPT !.dirent[n.id][name] = o.id]]

\* linkat(2) with AT_FDCWD for both directories; follow is AT_SYMLINK_FOLLOW.
sys_linkat(fs, old, new, follow, deny) ==
  LinkAt(fs, Lookup(fs, old, follow), NewEntry(fs, new, deny), LastName(new))

\* link(2): a symbolic link named by old is not followed.
sys_link(fs, old, new, deny) == sys_linkat(fs, old, new, FALSE, deny)

\* The next free inode number of a device.
FreshIno(fs, dev) ==
  1 + Cardinality({i \in 1..Len(fs.node) : fs.node[i].dev = dev})

\* symlink(2) once the place of new is found (n).
SymlinkAt(fs, text, n, name) ==
  IF n.rc # "OK" THEN [rc |-> n.rc, fs |-> fs]
  ELSE IF text = <<>> THEN [rc |-> "ENOENT", fs |-> fs]
  ELSE LET dev == fs.node[n.id].dev
           id == Len(fs.node) + 1
       IN [rc |-> "OK",
           fs |-> [node |-> Append(fs.node, Symlink(dev, FreshIno(fs, dev), text)),
                   dirent |-> [fs.dirent EXCEPT ![n.id][name] = id]]]

\* symlink(2): text is stored as given, nothing is resolved.
sys_symlink(fs, text, new, deny) ==
  SymlinkAt(fs, text, NewEntry(fs, new, deny), LastName(new))

\* ------------------------------------------------------------------ ln.c
SizeMod == 2 ^ SizeBits

\* si_add_size_t looking for the wrap in the sum of the two values as
\* integers of twice the width, where it never shows.
si_add_size_t_Wide(a, b, seam) ==
  IF seam THEN [ok |-> FALSE, result |-> 0]
  ELSE [ok |-> ~((a + b) < a), result |-> (a + b) % SizeMod]

\* si_add_size_t: [ok, result]; result is the sum in size_t arithmetic and
\* ok is "no wrap". seam: the test seam counter has run out (TEST builds).
si_add_size_t(a, b, seam) ==
  IF seam THEN [ok |-> FALSE, result |-> 0]
  ELSE LET result == (a + b) % SizeMod
           wrap == result < a
       IN [ok |-> ~wrap, result |-> result]

NULL == [null |-> TRUE, path |-> <<>>, alloc |-> 0, written |-> 0, readIdx |-> 0]

\* ln_path_target_concat putting the slash in whatever target_dir ends with.
ln_path_target_concat_AlwaysSlash(target_dir, source_file, fault, oob) ==
  IF fault \in {"strdup", "add1", "add2", "malloc"} THEN NULL
  ELSE IF ~si_add_size_t(Len(target_dir), Len(basename(source_file)), FALSE).ok THEN NULL
  ELSE IF ~si_add_size_t((Len(target_dir) + Len(basename(source_file))) % SizeMod, 2, FALSE).ok
  THEN NULL
  ELSE [null |-> FALSE,
        path |-> target_dir \o <<Slash>> \o basename(source_file),
        alloc |-> Len(target_dir) + Len(basename(source_file)) + 2,
        written |-> Len(target_dir) + Len(basename(source_file)) + 2,
        readIdx |-> Len(target_dir) - 1]

\* ln_path_target_concat. fault names the allocation or addition that
\* fails, if any; oob is what the comparison with '/' gives when
\* target_dir[slen_target_dir - 1] lies outside the string.
ln_path_target_concat(target_dir, source_file, fault, oob) ==
  IF fault = "strdup" THEN NULL
  ELSE LET bname_source_file == basename(source_file)
           slen_target_dir == Len(target_dir)
           slen_bname_source_file == Len(bname_source_file)
           add1 == si_add_size_t(slen_target_dir, slen_bname_source_file, fault = "add1")
           add2 == si_add_size_t(add1.result, 2, fault = "add2")
           concat_len == add2.result
           endsWithSlash == IF slen_target_dir = 0 THEN oob
                            ELSE target_dir[slen_target_dir] = Slash
           sep == IF endsWithSlash THEN <<>> ELSE <<Slash>>
           path_concat == target_dir \o sep \o bname_source_file
       IN IF ~(add1.ok /\ add2.ok) THEN NULL
          ELSE IF fault = "malloc" THEN NULL
          ELSE [null |-> FALSE,
                path |-> path_concat,
                alloc |-> concat_len,
                written |-> Len(path_concat) + 1,
                readIdx |-> slen_target_dir - 1]

\* One entry of the log of calls an operand makes.
Call(op, a, b, rc) == [op |-> op, a |-> a, b |-> b, rc |-> rc]

\* The world a function of ln.c works on: the context struct ln_ctx, the
\* file system and the log of calls.
Logged(w, call) == [w EXCEPT !.calls = Append(@, call)]

\* ln_warn: the message goes to stderr, the status becomes EXIT_FAILURE.
ln_warn(w, msg) ==
  [Logged(w, Call("ln_warn", <<msg>>, <<>>, "")) EXCEPT !.ctx.status_code = EXIT_FAILURE]

\* ln_same_file on two struct stat.
ln_same_file(sb1, sb2) ==
  sb1.dev = sb2.dev /\ sb1.ino = sb2.ino

\* ln_remove_dest after the unlink call, u its result: [removed, w].
ln_remove_dest_unlink(w, path_dest, u) ==
  LET w2 == [Logged(w, Call("unlink", path_dest, <<>>, u.rc)) EXCEPT !.fs = u.fs]
  IN IF u.rc # "OK"
     THEN [removed |-> FALSE, w |-> ln_warn(w2, "failed to unlink destination")]
     ELSE [removed |-> TRUE, w |-> w2]

\* ln_remove_dest after the stat call, st its result: [removed, w].
ln_remove_dest_stat(w, source_sb, path_dest, fault, st) ==
  LET w1 == Logged(w, Call("stat", path_dest, <<>>, st.rc))
  IN IF st.rc = "OK"
     THEN IF LN_FLAG_REMOVE_DEST \in w.ctx.flags
          THEN IF ln_same_file(source_sb, w.fs.node[st.id])
               THEN [removed |-> FALSE,
                     w |-> ln_warn(w1, "source and destination same")]
               ELSE ln_remove_dest_unlink(w1, path_dest,
                                          sys_unlink(w.fs, path_dest, fault = "unlink"))
          ELSE [removed |-> FALSE,
                w |-> ln_warn(w1, "destination already exists")]
     ELSE [removed |-> TRUE, w |-> w1]

\* ln_remove_dest: [removed, w].
ln_remove_dest(w, source_sb, path_dest, fault) ==
  ln_remove_dest_stat(w, source_sb, path_dest, fault, sys_stat(w.fs, path_dest))

\* A link call as ln_create_link sees it: [rc, fs, call], r its result.
Made(op, path_source, path_dest, r) ==
  [rc |-> r.rc, fs |-> r.fs, call |-> Call(op, path_source, path_dest, r.rc)]

\* CreateCall with symlink given the destination path as the text to store.
CreateCall_TextIsDest(w, source_sb, path_source, path_dest) ==
  IF LN_FLAG_SYMBOLIC \in w.ctx.flags
  THEN Made("symlink", path_dest, path_dest,
            sys_symlink(w.fs, path_dest, path_dest, FALSE))
  ELSE Made("link", path_source, path_dest,
            sys_linkat(w.fs, path_source, path_dest,
                       source_sb.type = "symlink" /\ LN_FLAG_FOLLOW_SYMBOLIC \in w.ctx.flags,
                       FALSE))

\* CreateCall with a linkat that never has AT_SYMLINK_FOLLOW.
CreateCall_NoFollow(w, source_sb, path_source, path_dest) ==
  IF LN_FLAG_SYMBOLIC \in w.ctx.flags
  THEN Made("symlink", path_source, path_dest,
            sys_symlink(w.fs, path_source, path_dest, FALSE))
  ELSE IF source_sb.type = "symlink"
  THEN Made(IF LN_FLAG_FOLLOW_SYMBOLIC \in w.ctx.flags THEN "linkat_follow" ELSE "linkat",
            path_source, path_dest,
            sys_linkat(w.fs, path_source, path_dest, FALSE, FALSE))
  ELSE Made("link", path_source, path_dest,
            sys_link(w.fs, path_source, path_dest, FALSE))

\* The link, linkat or symlink call ln_create_link selects: [rc, fs, call].
\* No link call is refused for lack of permission.
CreateCall(w, source_sb, path_source, path_dest) ==
  IF LN_FLAG_SYMBOLIC \in w.ctx.flags
  THEN Made("symlink", path_source, path_dest,
            sys_symlink(w.fs, path_source, path_dest, FALSE))
  ELSE IF source_sb.type = "symlink"
  THEN IF LN_FLAG_FOLLOW_SYMBOLIC \in w.ctx.flags
       THEN Made("linkat_follow", path_source, path_dest,
                 sys_linkat(w.fs, path_source, path_dest, TRUE, FALSE))
       ELSE Made("linkat", path_source, path_dest,
                 sys_linkat(w.fs, path_source, path_dest, FALSE, FALSE))
  ELSE Made("link", path_source, path_dest,
            sys_link(w.fs, path_source, path_dest, FALSE))

\* ln_create_link_rc without the warning for a link call that failed.
ln_create_link_rc_NoWarn(w, c) ==
  [Logged(w, c.call) EXCEPT !.fs = c.fs]

\* ln_create_link after the link call, c its result.
ln_create_link_rc(w, c) ==
  LET w3 == [Logged(w, c.call) EXCEPT !.fs = c.fs]
  IN IF c.rc # "OK"
     THEN ln_warn(w3, "failed to create link")
     ELSE w3

\* ln_create_link after ln_remove_dest, rem its result.
ln_create_link_removed(rem, source_sb, path_source, path_dest) ==
  IF rem.removed
  THEN ln_create_link_rc(rem.w, CreateCall(rem.w, source_sb, path_source, path_dest))
  ELSE rem.w

\* ln_create_link_lstat going on to the destination after a failed lstat,
\* with a struct stat that holds nothing.
ln_create_link_lstat_GoesOn(w, path_source, path_dest, fault, ls) ==
  LET w1 == Logged(w, Call("lstat", path_source, <<>>, ls.rc))
      sb == IF ls.rc = "OK" THEN w.fs.node[ls.id] ELSE File(0, 0)
  IN ln_create_link_removed(
       ln_remove_dest(IF ls.rc = "OK" THEN w1 ELSE ln_warn(w1, "lstat"),
                      sb, path_dest, fault),
       sb, path_source, path_dest)

\* ln_create_link after the lstat call, ls its result.
ln_create_link_lstat(w, path_source, path_dest, fault, ls) ==
  LET w1 == Logged(w, Call("lstat", path_source, <<>>, ls.rc))
  IN IF ls.rc # "OK"
     THEN ln_warn(w1, "lstat")
     ELSE ln_create_link_removed(
            ln_remove_dest(w1, w.fs.node[ls.id], path_dest, fault),
            w.fs.node[ls.id], path_source, path_dest)

\* ln_create_link.
ln_create_link(w, path_source, path_dest, fault) ==
  ln_create_link_lstat(Logged(w, Call("ln_create_link", path_source, path_dest, "")),
                       path_source, path_dest, fault,
                       sys_lstat(w.fs, path_source))

\* ln_target_dir handing the directory itself to ln_create_link.
ln_target_dir_DirAsDest(w, source_file, target_dir, fault, oob) ==
  LET path_dest == ln_path_target_concat(target_dir, source_file, fault, oob)
  IN IF path_dest.null
     THEN ln_warn(w, "alloc")
     ELSE ln_create_link(w, source_file, target_dir, fault)

\* ln_target_dir.
ln_target_dir(w, source_file, target_dir, fault, oob) ==
  LET path_dest == ln_path_target_concat(target_dir, source_file, fault, oob)
  IN IF path_dest.null
     THEN ln_warn(w, "alloc")
     ELSE ln_create_link(w, source_file, path_dest.path, fault)

\* ------------------------------------------------------- the file system
\* /a /b regular files, /s -> "a", /g -> "n" (dangling), /d a directory
\* holding the file d/b, /k -> "d", /m a directory on a second device
\* holding the file m/a, whose inode number is the one /a has on the first.
InitNode ==
  << Dir(1, 1), File(1, 2), File(1, 3), Symlink(1, 4, <<"a">>),
     Symlink(1, 5, <<"n">>), Dir(1, 6), File(1, 7), Symlink(1, 8, <<"d">>),
     Dir(2, 1), File(2, 2) >>

InitDirent ==
  (1 :> [NoEntries EXCEPT ![<<"a">>] = 2, ![<<"b">>] = 3, ![<<"s">>] = 4,
                          ![<<"g">>] = 5, ![<<"d">>] = 6, ![<<"k">>] = 8,
                          ![<<"m">>] = 9])
  @@ (6 :> [NoEntries EXCEPT ![<<"b">>] = 7])
  @@ (9 :> [NoEntries EXCEPT ![<<"a">>] = 10])

InitFS == [node |-> InitNode, dirent |-> InitDirent]

\* The operands of a run: the source operands and the last operand.
SourcePaths ==
  { <<"a">>, <<"/", "a">>, <<"b">>, <<"s">>, <<"g">>, <<"n">>, <<"d">> }
LastPaths ==
  { <<"a">>, <<"b">>, <<"s">>, <<"g">>, <<"n">>, <<"d">>, <<"d", "/">>,
    <<"k">>, <<"m">> }

RECURSIVE SeqsOf(_, _)
SeqsOf(S, n) ==
  IF n = 0 THEN {<<>>}
  ELSE {Append(q, x) : q \in SeqsOf(S, n - 1), x \in S}

OperandLists ==
  {<<>>} \cup
  UNION {{Append(q, t) : q \in SeqsOf(SourcePaths, n - 1), t \in LastPaths} :
           n \in 1..MaxOperands}

\* What getopt returns for an option character of "fLPs", '?' otherwise.
OptChars == {"f", "L", "P", "s", "?"}

\* What can go wrong in the environment while one operand is processed.
Faults == {"none", "strdup", "add1", "add2", "malloc", "unlink"}

\* ------------------------------------------------------------ the program
VARIABLES
  pc,            \* where ln_main is: "getopt", "operands", "batch", "single", "done";
                 \* "link_main", "unlink_main": that utility has run instead
  given,         \* the options of the command line, summarised
  operands,      \* argv after the options
  ln_ctx,        \* struct ln_ctx: [status_code, flags]
  i,             \* loop index of ln_main
  is_target_dir, \* local of ln_main
  fs,            \* the file system
  attempts,      \* the source operands processed so far: [idx, form, ok, env]
  last,          \* the record of the operand processed last
  status_code,   \* local of link_main and of unlink_main
  unit           \* a function of ln.c called by itself: its arguments and result

vars == <<pc, given, operands, ln_ctx, i, is_target_dir, fs, attempts, last,
          status_code, unit>>

argc == Len(operands)

\* The option strings of a command line.
OptionStrings == UNION {SeqsOf(OptChars, n) : n \in 0..MaxFlags}

Chars(opts) == {opts[k] : k \in 1..Len(opts)}

\* The last of -L and -P on the command line, "none" without either.
RECURSIVE LastLP(_)
LastLP(opts) ==
  IF opts = <<>> THEN "none"
  ELSE IF Last(opts) \in {"L", "P"} THEN Last(opts)
  ELSE LastLP(Front(opts))

\* The command line as the user wrote it: which options it holds.
Summary(opts) ==
  [f |-> "f" \in Chars(opts), s |-> "s" \in Chars(opts),
   bad |-> "?" \in Chars(opts), lp |-> LastLP(opts)]

\* No function is called by itself.
NoUnit == [fn |-> "none"]

Init ==
  /\ pc = "getopt"
  /\ given = Summary(<<>>)
  /\ operands = <<>>
  /\ ln_ctx = [status_code |-> EXIT_SUCCESS, flags |-> {}]
  /\ i = 0
  /\ is_target_dir = FALSE
  /\ fs = InitFS
  /\ attempts = <<>>
  /\ last = [pre |-> InitFS, statusPre |-> EXIT_SUCCESS, calls |-> <<>>]
  /\ status_code = EXIT_SUCCESS
  /\ unit = NoUnit

\* The getopt loop body without the default case.
OptionCase_NoDefault(ctx, c) ==
  CASE c = "f" -> [ctx EXCEPT !.flags = @ \cup {LN_FLAG_REMOVE_DEST}]
    [] c = "L" -> [ctx EXCEPT !.flags = @ \cup {LN_FLAG_FOLLOW_SYMBOLIC}]
    [] c = "P" -> [ctx EXCEPT !.flags = @ \ {LN_FLAG_FOLLOW_SYMBOLIC}]
    [] c = "s" -> [ctx EXCEPT !.flags = @ \cup {LN_FLAG_SYMBOLIC}]
    [] OTHER -> ctx

\* The body of the getopt loop for one option character c.
OptionCase(ctx, c) ==
  CASE c = "f" -> [ctx EXCEPT !.flags = @ \cup {LN_FLAG_REMOVE_DEST}]
    [] c = "L" -> [ctx EXCEPT !.flags = @ \cup {LN_FLAG_FOLLOW_SYMBOLIC}]
    [] c = "P" -> [ctx EXCEPT !.flags = @ \ {LN_FLAG_FOLLOW_SYMBOLIC}]
    [] c = "s" -> [ctx EXCEPT !.flags = @ \cup {LN_FLAG_SYMBOLIC}]
    [] OTHER -> [ctx EXCEPT !.status_code = EXIT_FAILURE]

\* The getopt loop over the option characters of the command line.
RECURSIVE GetoptLoop(_, _)
GetoptLoop(ctx, opts) ==
  IF opts = <<>> THEN ctx
  ELSE GetoptLoop(OptionCase(ctx, Head(opts)), Tail(opts))

\* ln_main up to argv += optind: the options are parsed and the operands
\* are what is left of the command line.
ParseOptions(opts, ops) ==
  /\ pc = "getopt"
  /\ ln_ctx' = GetoptLoop(ln_ctx, opts)
  /\ given' = Summary(opts)
  /\ operands' = ops
  /\ pc' = "operands"
  /\ UNCHANGED <<i, is_target_dir, fs, attempts, last, status_code, unit>>

\* Branch with the two-operand form tried before the directory test.
Branch_TwoOperandsFirst(ctx, ops, f) ==
  LET n == Len(ops)
      w == [ctx |-> ctx, fs |-> f, calls |-> <<>>]
      target == IF n >= 1 THEN sys_stat(f, ops[n]) ELSE Err("ENOENT")
      isdir == target.rc = "OK" /\ f.node[target.id].type = "dir"
  IN IF ctx.status_code # EXIT_SUCCESS
     THEN [ctx |-> ctx, is_target_dir |-> FALSE, pc |-> "done"]
     ELSE IF n < 2
     THEN [ctx |-> ln_warn(w, "must have >=2 file arguments").ctx,
           is_target_dir |-> FALSE, pc |-> "done"]
     ELSE IF n = 2
     THEN [ctx |-> ctx, is_target_dir |-> FALSE, pc |-> "single"]
     ELSE IF isdir
     THEN [ctx |-> ctx, is_target_dir |-> TRUE, pc |-> "batch"]
     ELSE [ctx |-> ln_warn(w, "final operand must be directory if > 2 operands").ctx,
           is_target_dir |-> FALSE, pc |-> "done"]

\* What ln_main decides from the operands before it creates any link:
\* [ctx, is_target_dir, pc].
Branch(ctx, ops, f) ==
  LET n == Len(ops)
      w == [ctx |-> ctx, fs |-> f, calls |-> <<>>]
      target == IF n >= 1 THEN sys_stat(f, ops[n]) ELSE Err("ENOENT")
      isdir == target.rc = "OK" /\ f.node[target.id].type = "dir"
  IN IF ctx.status_code # EXIT_SUCCESS
     THEN [ctx |-> ctx, is_target_dir |-> FALSE, pc |-> "done"]
     ELSE IF n < 2
     THEN [ctx |-> ln_warn(w, "must have >=2 file arguments").ctx,
           is_target_dir |-> FALSE, pc |-> "done"]
     ELSE IF isdir
     THEN [ctx |-> ctx, is_target_dir |-> TRUE, pc |-> "batch"]
     ELSE IF target.rc = "OK" /\ n > 2
     THEN [ctx |-> ln_warn(w, "final operand must be directory if > 2 operands").ctx,
           is_target_dir |-> FALSE, pc |-> "done"]
     ELSE IF n # 2
     THEN [ctx |-> ln_warn(w, "only 2 operands allowed if final operand not a directory").ctx,
           is_target_dir |-> FALSE, pc |-> "done"]
     ELSE [ctx |-> ctx, is_target_dir |-> FALSE, pc |-> "single"]

\* ln_main from the end of the options to the first link.
CheckOperands ==
  /\ pc = "operands"
  /\ LET b == Branch(ln_ctx, operands, fs)
     IN /\ ln_ctx' = b.ctx
        /\ is_target_dir' = b.is_target_dir
        /\ pc' = b.pc
  /\ i' = 0
  /\ UNCHANGED <<given, operands, fs, attempts, last, status_code, unit>>

\* The calls that create a link and the calls that change the file system.
CreateOps == {"symlink", "linkat", "linkat_follow", "link"}
MutatingOps == CreateOps \cup {"unlink"}

\* An operand's step succeeded: one of its calls created the link.
StepOk(calls) ==
  \E j \in 1..Len(calls) : calls[j].op \in CreateOps /\ calls[j].rc = "OK"

\* What the environment did to the operand: refused memory, denied a call.
StepEnv(calls) ==
  IF \E j \in 1..Len(calls) : calls[j].rc = "EACCES" THEN "denied"
  ELSE IF \A j \in 1..Len(calls) : calls[j].op # "ln_create_link" THEN "alloc"
  ELSE "none"

\* The entry attempts keeps of an operand.
Entry(idx, form, calls) ==
  [idx |-> idx, form |-> form, ok |-> StepOk(calls), env |-> StepEnv(calls)]

\* What is kept of the operand processed last: the file system and the
\* status it started from and the calls it made. The file system and the
\* status it ended with are fs and ln_ctx.
Attempt(before, after) ==
  [pre |-> before.fs, statusPre |-> before.ctx.status_code, calls |-> after.calls]

World == [ctx |-> ln_ctx, fs |-> fs, calls |-> <<>>]

\* What the comparison of target_dir[slen_target_dir - 1] with '/' can give.
SlashRead(target_dir) == IF Len(target_dir) = 0 THEN BOOLEAN ELSE {FALSE}

\* An operand has been processed and has left the world w: ln_main takes
\* the status and the file system from it.
Processed(w, idx, form) ==
  /\ ln_ctx' = w.ctx
  /\ fs' = w.fs
  /\ last' = Attempt(World, w)
  /\ attempts' = Append(attempts, Entry(idx, form, w.calls))

\* The loop over the source operands leaving at the first failure.
LnTargetDir_StopOnFailure(fault, oob) ==
  /\ pc = "batch"
  /\ i < argc - 1
  /\ oob \in SlashRead(operands[argc])
  /\ Processed(ln_target_dir(World, operands[i + 1], operands[argc], fault, oob),
               i + 1, "batch")
  /\ i' = i + 1
  /\ pc' = IF i + 1 < argc - 1 /\ ln_ctx'.status_code = EXIT_SUCCESS
           THEN "batch" ELSE "done"
  /\ UNCHANGED <<given, operands, is_target_dir, status_code, unit>>

\* One turn of the loop over the source operands of the directory form.
LnTargetDir(fault, oob) ==
  /\ pc = "batch"
  /\ i < argc - 1
  /\ oob \in SlashRead(operands[argc])
  /\ Processed(ln_target_dir(World, operands[i + 1], operands[argc], fault, oob),
               i + 1, "batch")
  /\ i' = i + 1
  /\ pc' = IF i + 1 < argc - 1 THEN "batch" ELSE "done"
  /\ UNCHANGED <<given, operands, is_target_dir, status_code, unit>>

\* The two-operand form.
LnCreateLink(fault) ==
  /\ pc = "single"
  /\ Processed(ln_create_link(World, operands[1], operands[2], fault), 1, "single")
  /\ pc' = "done"
  /\ UNCHANGED <<given, operands, i, is_target_dir, status_code, unit>>

Next ==
  \/ (pc = "getopt" /\ \E opts \in OptionStrings, ops \in OperandLists : ParseOptions(opts, ops))
  \/ CheckOperands
  \/ (pc = "batch" /\ \E fault \in Faults, oob \in BOOLEAN : LnTargetDir(fault, oob))
  \/ (pc = "single" /\ \E fault \in Faults : LnCreateLink(fault))

Spec == Init /\ [][Next]_vars

\* ------------------------------------------------- link.c and unlink.c
\* The paths link and unlink are given: those of ln and two names that
\* are free, one in the directory d and one on the second device.
UtilPaths ==
  SourcePaths \cup LastPaths \cup {<<"d", "/", "n">>, <<"m", "/", "n">>}

\* The operands after argv[0].
UtilArgs == UNION {SeqsOf(UtilPaths, n) : n \in 0..MaxOperands}

\* What a utility leaves: its exit status, the file system and its calls.
Exit(code, f, calls) == [status_code |-> code, fs |-> f, calls |-> calls]

\* link_main after the link call, r its result.
link_main_rc(args, r) ==
  IF r.rc # "OK"
  THEN Exit(EXIT_FAILURE, r.fs,
            <<Call("link", args[1], args[2], r.rc),
              Call("warn", <<"failed to create link">>, <<>>, "")>>)
  ELSE Exit(EXIT_SUCCESS, r.fs, <<Call("link", args[1], args[2], r.rc)>>)

\* link_main taking the first two of any number of operands.
link_main_AnyCount(f, args) ==
  IF Len(args) + 1 < 3
  THEN Exit(EXIT_FAILURE, f,
            <<Call("warnx", <<"must have exactly two file operands">>, <<>>, "")>>)
  ELSE link_main_rc(args, sys_link(f, args[1], args[2], FALSE))

\* link_main; args is argv without argv[0], so argc is Len(args) + 1.
link_main(f, args) ==
  IF Len(args) + 1 # 3
  THEN Exit(EXIT_FAILURE, f,
            <<Call("warnx", <<"must have exactly two file operands">>, <<>>, "")>>)
  ELSE link_main_rc(args, sys_link(f, args[1], args[2], FALSE))

\* unlink_main after the unlink call, r its result.
unlink_main_rc(args, r) ==
  IF r.rc # "OK"
  THEN Exit(EXIT_FAILURE, r.fs,
            <<Call("unlink", args[1], <<>>, r.rc),
              Call("warn", <<"failed to unlink">>, <<>>, "")>>)
  ELSE Exit(EXIT_SUCCESS, r.fs, <<Call("unlink", args[1], <<>>, r.rc)>>)

\* unlink_main; args is argv without argv[0].
unlink_main(f, args) ==
  IF Len(args) + 1 # 2
  THEN Exit(EXIT_FAILURE, f,
            <<Call("warnx", <<"must have exactly one file operand">>, <<>>, "")>>)
  ELSE unlink_main_rc(args, sys_unlink(f, args[1], FALSE))

\* A utility has run on the operands args and has left e.
Returned(prog, args, e) ==
  /\ operands' = args
  /\ status_code' = e.status_code
  /\ fs' = e.fs
  /\ last' = [pre |-> fs, statusPre |-> EXIT_SUCCESS, calls |-> e.calls]
  /\ pc' = prog
  /\ UNCHANGED <<given, ln_ctx, i, is_target_dir, attempts, unit>>

\* A run of the link utility.
LinkMain(args) ==
  /\ pc = "getopt"
  /\ Returned("link_main", args, link_main(fs, args))

\* A run of the unlink utility.
UnlinkMain(args) ==
  /\ pc = "getopt"
  /\ Returned("unlink_main", args, unlink_main(fs, args))

\* One of the three utilities is run.
NextUtil ==
  \/ Next
  \/ (pc = "getopt" /\ \E args \in UtilArgs : LinkMain(args))
  \/ (pc = "getopt" /\ \E args \in UtilArgs : UnlinkMain(args))

SpecUtil == Init /\ [][NextUtil]_vars

\* ------------------------------------------- the functions by themselves
\* A string of n characters c.
RECURSIVE Rep(_, _)
Rep(c, n) == IF n <= 0 THEN <<>> ELSE Append(Rep(c, n - 1), c)

\* The values of a size_t.
SizeT == 0..(SizeMod - 1)

\* Directory strings: "", "d", "d/", "/", "d//" and one so long that the
\* length of the result does not fit a size_t.
TargetDirs ==
  { <<>>, <<"d">>, <<"d", "/">>, <<"/">>, <<"d", "/", "/">>, Rep("d", SizeMod - 3) }

\* Source strings: "a", "a/b", "/a", "a/", "" and "/".
SourceFiles ==
  { <<"a">>, <<"a", "/", "b">>, <<"/", "a">>, <<"a", "/">>, <<>>, <<"/">> }

\* What can fail inside ln_path_target_concat.
ConcatFaults == Faults \ {"unlink"}

\* The calls of si_add_size_t and of ln_path_target_concat to be made.
UnitCalls ==
  { [fn |-> "si_add_size_t", done |-> FALSE, a |-> a, b |-> b, seam |-> seam,
     out |-> [ok |-> FALSE, result |-> 0]] :
      a \in SizeT, b \in SizeT, seam \in BOOLEAN }
  \cup
  { [fn |-> "ln_path_target_concat", done |-> FALSE, target_dir |-> t[1],
     source_file |-> t[2], fault |-> t[3], oob |-> t[4], out |-> NULL] :
      t \in {q \in TargetDirs \X SourceFiles \X ConcatFaults \X BOOLEAN :
               q[4] \in SlashRead(q[1])} }

\* Either ln is to be run or one of the functions is to be called.
InitUnit ==
  /\ given = Summary(<<>>)
  /\ operands = <<>>
  /\ ln_ctx = [status_code |-> EXIT_SUCCESS, flags |-> {}]
  /\ i = 0
  /\ is_target_dir = FALSE
  /\ fs = InitFS
  /\ attempts = <<>>
  /\ last = [pre |-> InitFS, statusPre |-> EXIT_SUCCESS, calls |-> <<>>]
  /\ status_code = EXIT_SUCCESS
  /\ \/ pc = "getopt" /\ unit = NoUnit
     \/ pc = "unit" /\ unit \in UnitCalls

\* The call of si_add_size_t.
SiAddSizeT ==
  /\ pc = "unit"
  /\ unit.fn = "si_add_size_t" /\ ~unit.done
  /\ unit' = [unit EXCEPT !.done = TRUE,
                          !.out = si_add_size_t(unit.a, unit.b, unit.seam)]
  /\ UNCHANGED <<pc, given, operands, ln_ctx, i, is_target_dir, fs, attempts, last,
                 status_code>>

\* The call of ln_path_target_concat.
LnPathTargetConcat ==
  /\ pc = "unit"
  /\ unit.fn = "ln_path_target_concat" /\ ~unit.done
  /\ unit' = [unit EXCEPT !.done = TRUE,
                          !.out = ln_path_target_concat(unit.target_dir, unit.source_file,
                                                        unit.fault, unit.oob)]
  /\ UNCHANGED <<pc, given, operands, ln_ctx, i, is_target_dir, fs, attempts, last,
                 status_code>>

NextUnit ==
  \/ Next
  \/ SiAddSizeT
  \/ LnPathTargetConcat

SpecUnit == InitUnit /\ [][NextUnit]_vars

\* ------------------------------------------------------------ properties
Done == pc = "done"

\* The last operand of the command line resolves to a directory.
TargetIsDir(f, ops) ==
  /\ Len(ops) >= 1
  /\ sys_stat(f, ops[Len(ops)]).rc = "OK"
  /\ f.node[sys_stat(f, ops[Len(ops)]).id].type = "dir"

\* The command line is a usage error: an unrecognized option, fewer than
\* two operands, or more than two with a last operand that is no directory.
UsageError ==
  \/ given.bad
  \/ argc < 2
  \/ (argc > 2 /\ ~TargetIsDir(InitFS, operands))

\* The operand processed last, and what it was processed with.
HasLast == attempts # <<>>
LastEntry == attempts[Len(attempts)]
LastSource == operands[LastEntry.idx]
Invoked == HasLast /\ last.calls # <<>> /\ last.calls[1].op = "ln_create_link"
LastDest == last.calls[1].b
CallsMade(ops) == {j \in 1..Len(last.calls) : last.calls[j].op \in ops}
Refused == \E j \in 1..Len(last.calls) : last.calls[j].rc \in {"EACCES", "EPERM", "EXDEV"}

SameDevIno(f, id1, id2) ==
  f.node[id1].dev = f.node[id2].dev /\ f.node[id1].ino = f.node[id2].ino

\* C1: when ln returns, the exit status is EXIT_FAILURE exactly if the
\* command line was a usage error or the step of at least one operand did
\* not create its link; otherwise it is EXIT_SUCCESS.
C1_ExitStatus ==
  Done =>
    /\ ln_ctx.status_code \in {EXIT_SUCCESS, EXIT_FAILURE}
    /\ (ln_ctx.status_code = EXIT_FAILURE) <=>
         (UsageError \/ \E k \in 1..Len(attempts) : ~attempts[k].ok)

\* A run of two source operands whose first failed and whose second was linked.
C1_Witness ==
  /\ Done
  /\ ~UsageError
  /\ Len(attempts) = 2
  /\ ~attempts[1].ok
  /\ attempts[2].ok
  /\ ln_ctx.status_code = EXIT_FAILURE

\* The destination entry after the operand is the new link to the source.
NewLink(src, dst) ==
  LET d == sys_lstat(fs, dst)
  IN /\ d.rc = "OK"
     /\ IF given.s
        THEN /\ fs.node[d.id].type = "symlink"
             /\ fs.node[d.id].text = src
             /\ d.id > Len(last.pre.node)
        ELSE d.id \in {sys_lstat(last.pre, src).id, sys_stat(last.pre, src).id}

\* The destination is an entry (a file or a symbolic link, dangling or not)
\* other than the source, other than the file the source resolves to, and
\* not a symbolic link to the source.
DestDiffers(src, dst) ==
  LET P == last.pre
      srcL == sys_lstat(P, src)
      srcS == sys_stat(P, src)
      dstL == sys_lstat(P, dst)
      dstS == sys_stat(P, dst)
  IN /\ srcL.rc = "OK" /\ srcS.rc = "OK" /\ dstL.rc = "OK"
     /\ P.node[dstL.id].type \in {"file", "symlink"}
     /\ dstL.id \notin {srcL.id, srcS.id}
     /\ dstS.rc = "OK" => dstS.id \notin {srcL.id, srcS.id}

\* C2: with -f, a destination entry that exists and differs from the source
\* is removed and replaced: afterwards the destination is the new link to
\* the source and the operand records no failure, unless the kernel
\* refuses the unlink or the link call.
C2_ForceReplaces ==
  (Invoked /\ given.f /\ DestDiffers(LastSource, LastDest) /\ ~Refused) =>
    /\ LastEntry.ok
    /\ ln_ctx.status_code = last.statusPre
    /\ NewLink(LastSource, LastDest)

\* C3: without -f, an operand whose destination exists fails, makes no
\* unlink and no link, linkat or symlink call, and leaves the file system
\* as it was.
C3_ExistingDestUntouched ==
  (Invoked /\ ~given.f /\ sys_lstat(last.pre, LastDest).rc = "OK") =>
    /\ ln_ctx.status_code = EXIT_FAILURE
    /\ ~LastEntry.ok
    /\ CallsMade(MutatingOps) = {}
    /\ fs = last.pre

\* C4: with -f, when the destination has the device id and inode number
\* of the source, the operand fails without an unlink call and the source
\* entry is still there with its link count.
C4_SameFileKept ==
  LET P == last.pre
      srcL == sys_lstat(P, LastSource)
      dstL == sys_lstat(P, LastDest)
  IN (Invoked /\ given.f /\ srcL.rc = "OK" /\ dstL.rc = "OK"
        /\ SameDevIno(P, srcL.id, dstL.id)) =>
       /\ ln_ctx.status_code = EXIT_FAILURE
       /\ CallsMade({"unlink"}) = {}
       /\ sys_lstat(fs, LastSource) = srcL
       /\ Nlink(fs, srcL.id) = Nlink(P, srcL.id)

\* C5: with -f, the file the source path resolved to before the operand is
\* never the entry ln unlinks, and the source path resolves to that file
\* afterwards.
C5_SourceSurvives ==
  LET P == last.pre
      srcS == sys_stat(P, LastSource)
      dstL == sys_lstat(P, LastDest)
  IN (Invoked /\ given.f /\ srcS.rc = "OK") =>
       /\ (\E j \in CallsMade({"unlink"}) : last.calls[j].rc = "OK") => dstL.id # srcS.id
       /\ sys_stat(fs, LastSource) = srcS

\* <targetdir>/<basename(s)>: the entry the directory form is to create.
TargetEntry(dir, src) ==
  dir \o (IF Len(dir) > 0 /\ Last(dir) = Slash THEN <<>> ELSE <<Slash>>) \o basename(src)

\* The entry dst of file system f is a link to src: a hard link to the entry
\* src or to the file src resolves to, or a symbolic link that stores src.
LinkedTo(f, dst, src) ==
  LET d == sys_lstat(f, dst)
  IN /\ d.rc = "OK"
     /\ \/ d.id \in {sys_lstat(f, src).id, sys_stat(f, src).id}
        \/ (f.node[d.id].type = "symlink" /\ f.node[d.id].text = src)

Sources == 1..(argc - 1)
NoFault == \A k \in 1..Len(attempts) : attempts[k].env = "none"

\* The directory form with recognized options and source operands that exist.
BatchOfExisting ==
  /\ ~given.bad
  /\ argc >= 2
  /\ TargetIsDir(InitFS, operands)
  /\ \A k \in Sources : sys_lstat(InitFS, operands[k]).rc = "OK"

AllLinked ==
  /\ ln_ctx.status_code = EXIT_SUCCESS
  /\ \A k \in Sources :
       LinkedTo(fs, TargetEntry(operands[argc], operands[k]), operands[k])

Feasible(k) ==
  LET src == operands[k]
      t == IF given.lp = "L" THEN sys_stat(InitFS, src) ELSE sys_lstat(InitFS, src)
      dir == sys_stat(InitFS, operands[argc])
  IN /\ sys_lstat(InitFS, TargetEntry(operands[argc], src)).rc = "ENOENT"
     /\ \A j \in 1..(k - 1) : basename(operands[j]) # basename(src)
     /\ ~given.s =>
          /\ t.rc = "OK"
          /\ InitFS.node[t.id].type # "dir"
          /\ InitFS.node[t.id].dev = InitFS.node[dir.id].dev

C7_BatchOrder ==
  is_target_dir =>
    /\ pc \in {"batch", "done"}
    /\ Len(attempts) = i
    /\ \A k \in 1..Len(attempts) :
         attempts[k].idx = k /\ attempts[k].form = "batch"
    /\ Done <=> i = argc - 1
    /\ (\E k \in 1..Len(attempts) : ~attempts[k].ok) => ln_ctx.status_code = EXIT_FAILURE

\* The second source operand was attempted after the first had failed.
C7_Witness ==
  /\ is_target_dir /\ Done
  /\ Len(attempts) = 2
  /\ ~attempts[1].ok
  /\ attempts[2].idx = 2

\* The destination argument of a logged call.
DestArg(call) == IF call.op = "unlink" THEN call.a ELSE call.b

\* What C8 says of a finished run.
BranchTaken ==
  /\ (argc = 2 /\ ~TargetIsDir(InitFS, operands)) =>
       /\ Len(attempts) = 1
       /\ attempts[1].form = "single"
       /\ last.calls[1] = Call("ln_create_link", operands[1], operands[2], "")
       /\ CallsMade({"ln_create_link"}) = {1}
  /\ (argc >= 2 /\ TargetIsDir(InitFS, operands)) =>
       /\ is_target_dir
       /\ Len(attempts) = argc - 1
       /\ \A k \in 1..Len(attempts) : attempts[k].form = "batch"
       /\ \A j \in CallsMade(MutatingOps \cup {"ln_create_link"}) :
            /\ DestArg(last.calls[j]) = TargetEntry(operands[argc], LastSource)
            /\ DestArg(last.calls[j]) # operands[argc]
            /\ Parent(last.pre, DestArg(last.calls[j])).id
                 = sys_stat(InitFS, operands[argc]).id

\* C8 as claimed: the operand count and whether the last operand resolves
\* to a directory decide the branch: two operands without a directory make
\* one call of the link creator with them, a directory makes the directory
\* form, whose destinations are composed paths inside the directory.
C8_BranchSelection == Done => BranchTaken

\* C8 as amended: the same, for a command line whose options are all
\* recognized.
C8_BranchSelectionValidOptions == (Done /\ ~given.bad) => BranchTaken

\* Two operands, the last a symbolic link to a directory: the directory form.
C8_Witness ==
  /\ Done /\ ~given.bad
  /\ argc = 2
  /\ operands[2] = <<"k">>
  /\ attempts # <<>> /\ attempts[1].form = "batch"
  /\ attempts[1].ok

\* C9: a usage error makes ln return failure before any call that changes
\* the file system: no operand is processed and the file system is as it was.
C9_UsageErrorNoEffect ==
  (pc # "getopt" /\ UsageError) =>
    /\ pc \in {"operands", "done"}
    /\ attempts = <<>>
    /\ last.calls = <<>>
    /\ fs = InitFS
    /\ Done => ln_ctx.status_code = EXIT_FAILURE

\* An unrecognized option in front of two operands that could be linked.
C9_Witness ==
  /\ Done
  /\ given.bad
  /\ argc = 2
  /\ sys_lstat(InitFS, operands[1]).rc = "OK"
  /\ sys_lstat(InitFS, operands[2]).rc = "ENOENT"
  /\ ln_ctx.status_code = EXIT_FAILURE

\* The text the destination of the last operand stores is the source operand.
StoresSource ==
  LET d == sys_lstat(fs, LastDest)
  IN /\ d.rc = "OK"
     /\ fs.node[d.id].type = "symlink"
     /\ fs.node[d.id].text = LastSource

\* C10 as claimed: after a successful ln -s the destination is a symbolic
\* link that stores the source operand and resolves to the file of the
\* source operand.
C10_SymlinkResolves ==
  (Invoked /\ given.s /\ LastEntry.ok) =>
    /\ StoresSource
    /\ sys_stat(fs, LastDest).rc = "OK"
    /\ sys_stat(fs, LastDest) = sys_stat(fs, LastSource)

IsAbsolute(path) == Len(path) > 0 /\ path[1] = Slash

\* C10 as amended: the destination stores the source operand, and
\* resolving it gives what resolving the source operand gives when the
\* source operand is absolute or the link lies in the working directory.
C10_SymlinkStoresSource ==
  (Invoked /\ given.s /\ LastEntry.ok) =>
    /\ StoresSource
    /\ (IsAbsolute(LastSource) \/ Parent(fs, LastDest).id = Root) =>
         sys_stat(fs, LastDest) = sys_stat(fs, LastSource)

\* A symbolic link to an absolute source, made in the directory form.
C10_Witness ==
  /\ Invoked /\ given.s /\ LastEntry.ok
  /\ LastEntry.form = "batch"
  /\ IsAbsolute(LastSource)
  /\ StoresSource
  /\ sys_stat(fs, LastDest).rc = "OK"

\* What C11 says of the source src and the destination dst of a link call
\* that succeeded: the two entries have one device id and inode number and
\* one link count, the link count of src before the call plus one. The
\* entries are examined as lstat does, which for a source that is no
\* symbolic link is what stat gives.
HardLinked(src, dst) ==
  LET s0 == sys_lstat(last.pre, src)
      s1 == sys_lstat(fs, src)
      d1 == sys_lstat(fs, dst)
  IN /\ s0.rc = "OK" /\ s1.rc = "OK" /\ d1.rc = "OK"
     /\ SameDevIno(fs, s1.id, d1.id)
     /\ Nlink(fs, s1.id) = Nlink(fs, d1.id)
     /\ Nlink(fs, s1.id) = Nlink(last.pre, s0.id) + 1

\* The source of the operand ln processed last was no symbolic link.
SourceNotSymlink ==
  /\ sys_lstat(last.pre, LastSource).rc = "OK"
  /\ last.pre.node[sys_lstat(last.pre, LastSource).id].type # "symlink"

\* C11: when the link utility returns success, and when ln without -s has
\* linked a source that is not a symbolic link, source and destination
\* report one (device id, inode number) and one link count, which is the
\* link count the source had before plus one.
C11_HardLinkCount ==
  /\ (pc = "link_main" /\ status_code = EXIT_SUCCESS) =>
       HardLinked(operands[1], operands[2])
  /\ (Invoked /\ ~given.s /\ SourceNotSymlink /\ LastEntry.ok) =>
       HardLinked(LastSource, LastDest)

\* The link utility has given the file a a second name in the directory d.
C11_Witness ==
  /\ pc = "link_main"
  /\ status_code = EXIT_SUCCESS
  /\ operands = << <<"a">>, <<"d", "/", "n">> >>
  /\ Nlink(fs, sys_lstat(fs, <<"a">>).id) = 2
  /\ HardLinked(operands[1], operands[2])

\* The lstat call of the operand processed last failed.
SourceLookupFailed ==
  /\ Invoked
  /\ \E j \in CallsMade({"lstat"}) : last.calls[j].rc # "OK"

\* C12: when the lstat of the source fails, whatever the options, the
\* operand is recorded as failed and nothing more is done for it: no stat
\* of the destination, no unlink, no link, linkat or symlink call, and the
\* file system stays as it was.
C12_SourceLookupFailure ==
  SourceLookupFailed =>
    /\ ~LastEntry.ok
    /\ ln_ctx.status_code = EXIT_FAILURE
    /\ CallsMade({"stat"} \cup MutatingOps) = {}
    /\ last.calls[Len(last.calls)] = Call("ln_warn", <<"lstat">>, <<>>, "")
    /\ fs = last.pre

\* ln -fs of a source that does not exist onto a destination that does.
C12_Witness ==
  /\ SourceLookupFailed
  /\ given.f /\ given.s
  /\ sys_lstat(last.pre, LastDest).rc = "OK"
  /\ ln_ctx.status_code = EXIT_FAILURE

\* ln without -s has linked a source that is a symbolic link.
SymlinkSourceLinked ==
  /\ Invoked /\ ~given.s /\ LastEntry.ok
  /\ sys_lstat(last.pre, LastSource).rc = "OK"
  /\ last.pre.node[sys_lstat(last.pre, LastSource).id].type = "symlink"

Unlinked(id) ==
  IF /\ \E j \in CallsMade({"unlink"}) : last.calls[j].rc = "OK"
     /\ sys_lstat(last.pre, LastDest).id = id
  THEN 1 ELSE 0

Unchanged == fs = last.pre

\* C14: link with an operand count other than two, and unlink with an
\* operand count other than one or with a path that does not exist, return
\* failure and leave the file system as it was; link does not remove or
\* replace a destination that exists; unlink of one existing operand
\* returns success only when the path is gone afterwards.
C14_LinkUnlinkUtilities ==
  /\ (pc = "link_main" /\ argc # 2) =>
       status_code = EXIT_FAILURE /\ Unchanged /\ CallsMade({"link"}) = {}
  /\ (pc = "unlink_main" /\ argc # 1) =>
       status_code = EXIT_FAILURE /\ Unchanged /\ CallsMade({"unlink"}) = {}
  /\ (pc = "unlink_main" /\ argc = 1 /\ sys_lstat(last.pre, operands[1]).rc # "OK") =>
       status_code = EXIT_FAILURE /\ Unchanged
  /\ (pc = "link_main" /\ argc = 2 /\ sys_lstat(last.pre, operands[2]).rc = "OK") =>
       /\ status_code = EXIT_FAILURE
       /\ Unchanged
       /\ sys_lstat(fs, operands[2]) = sys_lstat(last.pre, operands[2])
  /\ (pc = "unlink_main" /\ argc = 1 /\ sys_lstat(last.pre, operands[1]).rc = "OK"
        /\ status_code = EXIT_SUCCESS) =>
       sys_lstat(fs, operands[1]).rc = "ENOENT"
  /\ pc \in {"link_main", "unlink_main"} =>
       (status_code = EXIT_FAILURE => Unchanged)

\* unlink has removed the dangling symbolic link g.
C14_Witness ==
  /\ pc = "unlink_main"
  /\ operands = << <<"g">> >>
  /\ status_code = EXIT_SUCCESS
  /\ sys_lstat(last.pre, <<"g">>).rc = "OK"
  /\ sys_lstat(fs, <<"g">>).rc = "ENOENT"

\* A call of si_add_size_t has returned; the test seam did not cut in.
Added == unit.fn = "si_add_size_t" /\ unit.done /\ ~unit.seam

\* C15: for size_t values a and b, when a + b is at most the largest
\* size_t, si_add_size_t returns true and stores a + b; when a + b is
\* larger it returns false; and the comparison result < a finds every such
\* case, also those where only b is larger than the result.
C15_AddNoWrap ==
  Added =>
    /\ (unit.a + unit.b <= SizeMod - 1) =>
         (unit.out.ok /\ unit.out.result = unit.a + unit.b)
    /\ (unit.a + unit.b > SizeMod - 1) => ~unit.out.ok
    /\ unit.out.ok <=> ~(unit.out.result < unit.a)
    /\ (unit.out.result < unit.b) => (unit.out.result < unit.a)

\* The call (MAX, 1): the sum wraps to 0 and false is returned.
C15_Witness ==
  /\ Added
  /\ unit.a = SizeMod - 1 /\ unit.b = 1
  /\ ~unit.out.ok
  /\ unit.out.result = 0

\* A call of ln_path_target_concat has returned a path.
Composed ==
  /\ unit.fn = "ln_path_target_concat" /\ unit.done
  /\ ~unit.out.null

EndsWithSlash(str) == Len(str) > 0 /\ str[Len(str)] = Slash

\* The path has two slashes in a row where the directory and the name meet:
\* the slash in front of the name has a slash before it or after it.
DoubledAtJoin(path, name) ==
  LET k == Len(path) - Len(name)
  IN /\ k >= 1 /\ path[k] = Slash
     /\ \/ (k > 1 /\ path[k - 1] = Slash)
        \/ (Len(name) > 0 /\ name[1] = Slash)

\* The path is target_dir, one slash unless target_dir ends with one, and
\* the basename of source_file.
ComposedAsSaid ==
  unit.out.path =
    unit.target_dir
      \o (IF EndsWithSlash(unit.target_dir) THEN <<>> ELSE <<Slash>>)
      \o basename(unit.source_file)

\* C16 as claimed: for a target_dir that is not empty and any source_file,
\* when no allocation fails, the result is target_dir, one slash exactly if
\* target_dir does not end with one, and the basename of source_file; it
\* has no doubled slash at the join.
C16_ComposedPath ==
  (Composed /\ unit.target_dir # <<>>) =>
    /\ ComposedAsSaid
    /\ ~DoubledAtJoin(unit.out.path, basename(unit.source_file))

\* C16 as amended: the result is composed as said, and it has a doubled
\* slash at the join exactly when target_dir ends with two slashes or the
\* basename of source_file is "/".
C16_ComposedPathJoin ==
  (Composed /\ unit.target_dir # <<>>) =>
    /\ ComposedAsSaid
    /\ DoubledAtJoin(unit.out.path, basename(unit.source_file)) <=>
         \/ basename(unit.source_file) = <<Slash>>
         \/ (Len(unit.target_dir) >= 2 /\ EndsWithSlash(unit.target_dir)
               /\ EndsWithSlash(Front(unit.target_dir)))

\* ("d", "a/b") has given "d/b".
C16_Witness ==
  /\ Composed
  /\ unit.target_dir = <<"d">>
  /\ unit.source_file = <<"a", "/", "b">>
  /\ unit.out.path = <<"d", "/", "b">>

\* The file system calls of the operand processed last, in the order made.
SysCalls == SelectSeq(last.calls, LAMBDA c : c.op \notin {"ln_create_link", "ln_warn"})

\* The stage of a call in the order source lookup, destination lookup,
\* unlink, link creation.
Stage(op) ==
  CASE op = "lstat" -> 1
    [] op = "stat" -> 2
    [] op = "unlink" -> 3
    [] OTHER -> 4

\* The calls come in the order of their stages, none of them twice, and
\* each lookup that is made comes after the lookup before it.
InOrder(calls) ==
  /\ \A j \in 1..(Len(calls) - 1) : Stage(calls[j].op) < Stage(calls[j + 1].op)
  /\ calls # <<>> => calls[1].op = "lstat"
  /\ Len(calls) >= 2 => calls[2].op = "stat"

\* C17: the calls of an operand come in the order source lookup,
\* destination lookup, unlink, link creation, with at most one unlink and
\* one link-creating call; a link-creating call is made only when the
\* source lookup succeeded and the destination was absent or was unlinked,
\* and none is made after an unlink that failed.
C17_CallOrder ==
  Invoked =>
    /\ InOrder(SysCalls)
    /\ Cardinality(CallsMade({"unlink"})) <= 1
    /\ Cardinality(CallsMade(CreateOps)) <= 1
    /\ CallsMade(CreateOps) # {} =>
         /\ \E j \in CallsMade({"lstat"}) : last.calls[j].rc = "OK"
         /\ \/ sys_lstat(last.pre, LastDest).rc = "ENOENT"
            \/ \E j \in CallsMade({"unlink"}) : last.calls[j].rc = "OK"
    /\ (\E j \in CallsMade({"unlink"}) : last.calls[j].rc # "OK") =>
         CallsMade(CreateOps) = {}

\* A call of ln_path_target_concat has returned.
ConcatDone == unit.fn = "ln_path_target_concat" /\ unit.done

\* The length of the result does not fit a size_t.
TooLong ==
  Len(unit.target_dir) + Len(basename(unit.source_file)) + 2 > SizeMod - 1

C19_FailedOperandNoEffect ==
  (HasLast /\ ~LastEntry.ok) =>
    /\ fs = last.pre
    /\ sys_lstat(last.pre, LastDest).rc = "OK" => sys_lstat(fs, LastDest).rc = "OK"

====
